---- MODULE Spec2Model ----
(***************************************************************************)
(* Contact / Unit / Lease store of pms_backend.core with the rules that    *)
(* Unit.save, Lease.save and LeaseCreateUpdateSerializer.validate enforce, *)
(* driven through the REST view sets (ContactViewSet, UnitViewSet,         *)
(* LeaseViewSet).                                                          *)
(*                                                                         *)
(* Only the fields the rules read are kept: Contact.contact_type,          *)
(* Unit.status, Unit.owner, Lease.unit, Lease.tenant, Lease.landlord.      *)
(* Primary keys are handed out by an increasing counter and never reused.  *)
(* A request payload is a function whose DOMAIN is the set of fields the   *)
(* request supplies, as `'unit' in data` reads it in the serializer.       *)
(* Requests that the framework answers before any code of this repository  *)
(* runs (a primary key that names no stored record, a required field left  *)
(* out) are not drawn: every payload names stored records.                 *)
(***************************************************************************)
EXTENDS Integers, FiniteSets, Sequences, TLC

VARIABLES contacts, units, leases, nextContact, nextUnit, nextLease,
          quota, inflight, response

vars == <<contacts, units, leases, nextContact, nextUnit, nextLease,
          quota, inflight, response>>

store == <<contacts, units, leases>>

counters == <<nextContact, nextUnit, nextLease, quota>>

\* ------------------------------------------------------------------ bounds
\* Records (Contacts, Units and Leases together) that requests create in
\* one behaviour that starts from the empty store
MaxRecords == 4
\* Records that requests add to the store the load_test_data command left
MaxAdded == 1
\* createLease requests in flight at once
MaxInflight == 2

Slots == 1..MaxInflight

\* quota is the number of records the behaviour may still create; it caps
\* the primary key counters.
CanCreate == quota > 0

\* ------------------------------------------------------------ enumerations
LANDLORD == "LANDLORD"
TENANT == "TENANT"
ContactType == {LANDLORD, TENANT}

VACANT == "VACANT"
OCCUPIED == "OCCUPIED"
MAINTENANCE == "MAINTENANCE"
UnitStatus == {VACANT, OCCUPIED, MAINTENANCE}

LeaseFields == {"unit", "tenant", "landlord"}

\* ---------------------------------------------------------------- helpers
Restrict(f, S) == [x \in S |-> f[x]]

Has(data, field) == field \in DOMAIN data

\* ------------------------------------------------------------- responses
\* What the API layer answers: the HTTP status, the kind of error, the keys
\* of the error body (empty for an exception nothing catches) and the
\* primary key of the record written.
Reply(op, code, error, keys, id) ==
    [op |-> op, code |-> code, error |-> error, keys |-> keys, id |-> id]

Ok(op, code, id) == Reply(op, code, "None", {}, id)

\* serializers.ValidationError({key: ...}) : HTTP 400 with the key
Rejected(op, error, keys) == Reply(op, 400, error, keys, 0)

\* ValueError / IntegrityError raised in Model.save : not caught, HTTP 500
Crashed(op, error) == Reply(op, 500, error, {}, 0)

\* ------------------------------------------------------------------ store
Put(table, id, row) ==
    [x \in DOMAIN table \cup {id} |-> IF x = id THEN row ELSE table[x]]

\* Fault: Unit.owner without on_delete=CASCADE, the Units stay behind
OwnedUnitsKept(c) == {}

\* on_delete=CASCADE of Unit.owner
OwnedUnits(c) == {u \in DOMAIN units : units[u].owner = c}

\* on_delete=CASCADE of Lease.unit
LeasesOnUnits(us) == {l \in DOMAIN leases : leases[l].unit \in us}

\* on_delete=CASCADE of Lease.tenant and Lease.landlord
LeasesOfContact(c) ==
    {l \in DOMAIN leases : leases[l].tenant = c \/ leases[l].landlord = c}

\* ---------------------------------------------------------------- payloads
ContactPayloads ==
    {[contact_type |-> t] : t \in ContactType} \cup {[f \in {} |-> TENANT]}

\* POST /units/ : owner is required, status is optional
UnitCreatePayloads ==
    {[owner |-> o, status |-> s] : o \in DOMAIN contacts, s \in UnitStatus}
    \cup {[owner |-> o] : o \in DOMAIN contacts}

\* PUT and PATCH /units/<id>/ : any of the two fields
UnitUpdatePayloads ==
    UnitCreatePayloads \cup {[status |-> s] : s \in UnitStatus}
                       \cup {[f \in {} |-> VACANT]}

\* PUT and PATCH /leases/<id>/ : any of the three fields
LeaseUpdatePayloads ==
    UNION {{d \in [S -> DOMAIN contacts \cup DOMAIN units] :
               /\ Has(d, "unit") => d["unit"] \in DOMAIN units
               /\ Has(d, "tenant") => d["tenant"] \in DOMAIN contacts
               /\ Has(d, "landlord") => d["landlord"] \in DOMAIN contacts}
           : S \in SUBSET LeaseFields}

\* POST /leases/ : the three fields are required
LeaseCreatePayloads == {d \in LeaseUpdatePayloads : DOMAIN d = LeaseFields}

\* -------------------------------------------------------------- Contact
\* ContactViewSet.create : ContactSerializer has no validate; the type
\* defaults to TENANT.
CreateContact(data) ==
    /\ CanCreate
    /\ contacts' = Put(contacts, nextContact,
                       [ctype |-> IF Has(data, "contact_type")
                                  THEN data["contact_type"] ELSE TENANT])
    /\ nextContact' = nextContact + 1
    /\ quota' = quota - 1
    /\ response' = Ok("createContact", 201, nextContact)
    /\ UNCHANGED <<units, leases, nextUnit, nextLease, inflight>>

\* ContactViewSet.update / partial_update : nothing looks at the Units or
\* Leases that reference the Contact.
UpdateContact(c, data) ==
    /\ contacts' = [contacts EXCEPT ![c].ctype =
                       IF Has(data, "contact_type")
                       THEN data["contact_type"] ELSE @]
    /\ response' = Ok("updateContact", 200, c)
    /\ UNCHANGED <<units, leases, counters, inflight>>

\* ContactViewSet.destroy with the CASCADE foreign keys of Unit and Lease
DeleteContact(c) ==
    /\ contacts' = Restrict(contacts, DOMAIN contacts \ {c})
    /\ units' = Restrict(units, DOMAIN units \ OwnedUnits(c))
    /\ leases' = Restrict(leases,
          DOMAIN leases \ (LeasesOfContact(c) \cup LeasesOnUnits(OwnedUnits(c))))
    /\ response' = Ok("deleteContact", 204, c)
    /\ UNCHANGED <<counters, inflight>>

\* ------------------------------------------------------------------ Unit
\* Unit.save : the owner must be a landlord
UnitSaveError(ownerType) ==
    IF ownerType # LANDLORD THEN "RoleViolation" ELSE "None"

\* The Unit instance a request saves: the stored row (the defaults on
\* create) with the validated fields set on it
UnitRow(old, data) ==
    [status |-> IF Has(data, "status") THEN data["status"] ELSE old.status,
     owner |-> IF Has(data, "owner") THEN data["owner"] ELSE old.owner]

\* UnitViewSet.create : Unit.status defaults to VACANT
CreateUnit(data) ==
    /\ LET row == UnitRow([status |-> VACANT, owner |-> data["owner"]], data)
           err == UnitSaveError(contacts[row.owner].ctype)
       IN IF err # "None"
          THEN /\ response' = Crashed("createUnit", err)
               /\ UNCHANGED <<units, nextUnit, quota>>
          ELSE /\ CanCreate
               /\ units' = Put(units, nextUnit, row)
               /\ nextUnit' = nextUnit + 1
               /\ quota' = quota - 1
               /\ response' = Ok("createUnit", 201, nextUnit)
    /\ UNCHANGED <<contacts, leases, nextContact, nextLease, inflight>>

\* UnitViewSet.update and partial_update
UpdateUnit(u, data) ==
    /\ LET row == UnitRow(units[u], data)
           err == UnitSaveError(contacts[row.owner].ctype)
       IN IF err # "None"
          THEN /\ response' = Crashed("updateUnit", err)
               /\ UNCHANGED units
          ELSE /\ units' = Put(units, u, row)
               /\ response' = Ok("updateUnit", 200, u)
    /\ UNCHANGED <<contacts, leases, counters, inflight>>

\* UnitViewSet.destroy with the CASCADE foreign key of Lease.unit
DeleteUnit(u) ==
    /\ units' = Restrict(units, DOMAIN units \ {u})
    /\ leases' = Restrict(leases, DOMAIN leases \ LeasesOnUnits({u}))
    /\ response' = Ok("deleteUnit", 204, u)
    /\ UNCHANGED <<contacts, counters, inflight>>

\* ----------------------------------------------------------------- Lease
NoError == [error |-> "None", keys |-> {}]

\* Fault: validate without the occupancy check on creation
LeaseValidateNoOccupancy(isCreate, data) ==
    IF Has(data, "tenant") /\ contacts[data["tenant"]].ctype # TENANT
    THEN [error |-> "RoleViolation", keys |-> {"tenant"}]
    ELSE IF Has(data, "landlord") /\ contacts[data["landlord"]].ctype # LANDLORD
    THEN [error |-> "RoleViolation", keys |-> {"landlord"}]
    ELSE IF /\ Has(data, "landlord") /\ Has(data, "unit")
            /\ data["landlord"] # units[data["unit"]].owner
    THEN [error |-> "OwnershipMismatch", keys |-> {"landlord"}]
    ELSE NoError

\* LeaseCreateUpdateSerializer.validate : isCreate is `self.instance is None`
LeaseValidate(isCreate, data) ==
    IF isCreate /\ Has(data, "unit") /\ units[data["unit"]].status = OCCUPIED
    THEN [error |-> "AlreadyOccupied", keys |-> {"unit"}]
    ELSE IF Has(data, "tenant") /\ contacts[data["tenant"]].ctype # TENANT
    THEN [error |-> "RoleViolation", keys |-> {"tenant"}]
    ELSE IF Has(data, "landlord") /\ contacts[data["landlord"]].ctype # LANDLORD
    THEN [error |-> "RoleViolation", keys |-> {"landlord"}]
    ELSE IF /\ Has(data, "landlord") /\ Has(data, "unit")
            /\ data["landlord"] # units[data["unit"]].owner
    THEN [error |-> "OwnershipMismatch", keys |-> {"landlord"}]
    ELSE NoError

\* The related objects a Lease instance holds once the request has read
\* them: lease.tenant, lease.landlord, lease.unit and lease.unit.owner.
Load(lease) ==
    [tenantType |-> contacts[lease.tenant].ctype,
     landlordType |-> contacts[lease.landlord].ctype,
     status |-> units[lease.unit].status,
     owner |-> units[lease.unit].owner,
     ownerType |-> contacts[units[lease.unit].owner].ctype]

\* Lease.save with the role checks only.
LeaseSaveErrorRolesOnly(lease, loaded) ==
    IF loaded.tenantType # TENANT THEN "RoleViolation"
    ELSE IF loaded.landlordType # LANDLORD THEN "RoleViolation"
    ELSE "None"

\* Lease.save, the three checks that raise ValueError
LeaseSaveError(lease, loaded) ==
    IF loaded.tenantType # TENANT THEN "RoleViolation"
    ELSE IF loaded.landlordType # LANDLORD THEN "RoleViolation"
    ELSE IF lease.landlord # loaded.owner THEN "OwnershipMismatch"
    ELSE "None"

\* Lease.save, `if self.unit.status != OCCUPIED` : whether unit.save() runs
UnitSaveRuns(loaded) == loaded.status # OCCUPIED

\* Fault: unit.save() called without setting the status first
UnitRowSavedStale(loaded) == [status |-> loaded.status, owner |-> loaded.owner]

\* Lease.save, the row that `self.unit.save()` writes: the Unit instance
\* the request loaded, with its status set to OCCUPIED
UnitRowSaved(loaded) == [status |-> OCCUPIED, owner |-> loaded.owner]

\* Fault: the status side effect placed above the three checks
UnitsAfterLeaseSaveEarly(lease, loaded) ==
    IF UnitSaveRuns(loaded)
    THEN Put(units, lease.unit, UnitRowSaved(loaded))
    ELSE units

\* Lease.save, the Unit table when Lease.save has raised or has reached
\* super().save(): a failed check raises before the Unit is touched.  The
\* check of Unit.save cannot fail here on what the request loaded: the
\* owner is the landlord, whose role was just checked.
UnitsAfterLeaseSave(lease, loaded) ==
    IF LeaseSaveError(lease, loaded) # "None" THEN units
    ELSE IF UnitSaveRuns(loaded)
    THEN Put(units, lease.unit, UnitRowSaved(loaded))
    ELSE units

\* The Lease instance an update saves: the stored row with the validated
\* fields set on it (ModelSerializer.update)
Merged(l, data) ==
    [f \in LeaseFields |-> IF Has(data, f) THEN data[f] ELSE leases[l][f]]

\* Model.save of the Lease row after Lease.save's checks and side effect
LeasesAfterSave(id, lease) == Put(leases, id, lease)

\* LeaseViewSet.create as one uninterrupted request
CreateLease(data) ==
    /\ LET v == LeaseValidate(TRUE, data)
           lease == [f \in LeaseFields |-> data[f]]
           loaded == Load(lease)
           err == LeaseSaveError(lease, loaded)
       IN IF v.error # "None"
          THEN /\ response' = Rejected("createLease", v.error, v.keys)
               /\ UNCHANGED <<units, leases, nextLease, quota>>
          ELSE IF err # "None"
          THEN /\ response' = Crashed("createLease", err)
               /\ units' = UnitsAfterLeaseSave(lease, loaded)
               /\ UNCHANGED <<leases, nextLease, quota>>
          ELSE /\ CanCreate
               /\ units' = UnitsAfterLeaseSave(lease, loaded)
               /\ leases' = LeasesAfterSave(nextLease, lease)
               /\ nextLease' = nextLease + 1
               /\ quota' = quota - 1
               /\ response' = Ok("createLease", 201, nextLease)
    /\ UNCHANGED <<contacts, nextContact, nextUnit, inflight>>

\* LeaseViewSet.update and partial_update as one uninterrupted request
UpdateLease(l, data) ==
    /\ LET v == LeaseValidate(FALSE, data)
           lease == Merged(l, data)
           loaded == Load(lease)
           err == LeaseSaveError(lease, loaded)
       IN IF v.error # "None"
          THEN /\ response' = Rejected("updateLease", v.error, v.keys)
               /\ UNCHANGED <<units, leases>>
          ELSE IF err # "None"
          THEN /\ response' = Crashed("updateLease", err)
               /\ units' = UnitsAfterLeaseSave(lease, loaded)
               /\ UNCHANGED leases
          ELSE /\ units' = UnitsAfterLeaseSave(lease, loaded)
               /\ leases' = LeasesAfterSave(l, lease)
               /\ response' = Ok("updateLease", 200, l)
    /\ UNCHANGED <<contacts, counters, inflight>>

\* LeaseViewSet.destroy : the Lease row goes, nothing else is touched
LeasesAfterDelete(l) == Restrict(leases, DOMAIN leases \ {l})

\* Fault: destroy that frees the Unit of the deleted Lease
UnitsAfterLeaseDeleteFreed(l) ==
    [units EXCEPT ![leases[l].unit].status = VACANT]

UnitsAfterLeaseDelete(l) == units

DeleteLease(l) ==
    /\ leases' = LeasesAfterDelete(l)
    /\ units' = UnitsAfterLeaseDelete(l)
    /\ response' = Ok("deleteLease", 204, l)
    /\ UNCHANGED <<contacts, counters, inflight>>

\* -------------------------------------------------------------- Dashboard
\* The fields and relations of Contact that a queryset filter can name
ContactLookups ==
    {"id", "pk", "name", "contact_type", "email", "phone", "address",
     "created_at", "updated_at", "owned_units", "leases_as_tenant",
     "leases_as_landlord"}

\* DashboardView.list : the keyword of Contact.objects.filter(type=...)
LandlordFilterKeyword == "type"

\* DashboardView.list : unit_status.get(OCCUPIED, 0)
OccupiedUnits == Cardinality({u \in DOMAIN units : units[u].status = OCCUPIED})

\* DashboardView.list : Unit.objects.count()
TotalUnits == Cardinality(DOMAIN units)

\* occupied_units / total_units * 100 in hundredths, rounded to the nearest
\* hundredth (ties to even) as the .2f conversion of the quotient does
Hundredths(occupied, total) ==
    LET q == (occupied * 10000) \div total
        r == (occupied * 10000) % total
    IN IF 2 * r > total THEN q + 1
       ELSE IF 2 * r < total THEN q
       ELSE IF q % 2 = 0 THEN q ELSE q + 1

TwoDigits(n) == IF n < 10 THEN "0" \o ToString(n) ELSE ToString(n)

\* f"{x:.2f}%" for x given in hundredths
FormatPercent(h) == ToString(h \div 100) \o "." \o TwoDigits(h % 100) \o "%"

\* DashboardView.list, 'occupancy_rate' :
\* f"{(occupied_units / total_units * 100) if total_units else 0:.2f}%"
OccupancyRate(occupied, total) ==
    FormatPercent(IF total # 0 THEN Hundredths(occupied, total) ELSE 0)

\* DashboardView.list : the landlord summary is built before the Response;
\* a filter keyword that is no field of Contact raises FieldError there
\* and the request ends without a body.
GetDashboard ==
    /\ response' =
          IF LandlordFilterKeyword \notin ContactLookups
          THEN [op |-> "getDashboard", code |-> 500, error |-> "FieldError",
                keys |-> {}, id |-> 0, occupancy_rate |-> "None"]
          ELSE [op |-> "getDashboard", code |-> 200, error |-> "None",
                keys |-> {}, id |-> 0,
                occupancy_rate |-> OccupancyRate(OccupiedUnits, TotalUnits)]
    /\ UNCHANGED <<store, counters, inflight>>

\* ------------------------------------------- createLease, step by step
\* Lease.save runs outside any transaction: the request reads the store in
\* validate, writes the Unit row in unit.save() and the Lease row in
\* super().save(), and other requests may commit between these steps.
Idle == [pc |-> "idle"]

\* The foreign keys of a row name stored records (checked by the database
\* when the row is written)
UnitRowAccepted(row) == row.owner \in DOMAIN contacts

LeaseRowAccepted(lease) ==
    /\ lease.unit \in DOMAIN units
    /\ lease.tenant \in DOMAIN contacts
    /\ lease.landlord \in DOMAIN contacts

\* serializer.is_valid() : validate, with the related objects it loads
BeginCreateLease(r, data) ==
    /\ inflight[r].pc = "idle"
    /\ LET v == LeaseValidate(TRUE, data)
           lease == [f \in LeaseFields |-> data[f]]
       IN IF v.error # "None"
          THEN /\ response' = Rejected("createLease", v.error, v.keys)
               /\ UNCHANGED <<inflight, quota>>
          ELSE /\ CanCreate
               /\ quota' = quota - 1
               /\ inflight' = [inflight EXCEPT ![r] =
                     [pc |-> "validated", lease |-> lease, loaded |-> Load(lease)]]
               /\ UNCHANGED response
    /\ UNCHANGED <<store, nextContact, nextUnit, nextLease>>

\* Lease.save up to and including self.unit.save()
SaveUnitOfLease(r) ==
    /\ inflight[r].pc = "validated"
    /\ LET lease == inflight[r].lease
           loaded == inflight[r].loaded
           err == LeaseSaveError(lease, loaded)
       IN IF err # "None"
          THEN /\ response' = Crashed("createLease", err)
               /\ inflight' = [inflight EXCEPT ![r] = Idle]
               /\ units' = UnitsAfterLeaseSave(lease, loaded)
          ELSE IF ~UnitSaveRuns(loaded)
          THEN /\ inflight' = [inflight EXCEPT ![r].pc = "unitKept"]
               /\ UNCHANGED <<units, response>>
          ELSE IF UnitSaveError(loaded.ownerType) # "None"
          THEN /\ response' = Crashed("createLease", UnitSaveError(loaded.ownerType))
               /\ inflight' = [inflight EXCEPT ![r] = Idle]
               /\ UNCHANGED units
          ELSE IF ~UnitRowAccepted(UnitRowSaved(loaded))
          THEN /\ response' = Crashed("createLease", "IntegrityError")
               /\ inflight' = [inflight EXCEPT ![r] = Idle]
               /\ UNCHANGED units
          ELSE /\ units' = UnitsAfterLeaseSave(lease, loaded)
               /\ inflight' = [inflight EXCEPT ![r].pc = "unitSaved"]
               /\ UNCHANGED response
    /\ UNCHANGED <<contacts, leases, counters>>

\* Lease.save, super().save() : the INSERT of the Lease row
PersistLease(r) ==
    /\ inflight[r].pc \in {"unitSaved", "unitKept"}
    /\ IF LeaseRowAccepted(inflight[r].lease)
       THEN /\ leases' = LeasesAfterSave(nextLease, inflight[r].lease)
            /\ nextLease' = nextLease + 1
            /\ response' = Ok("createLease", 201, nextLease)
       ELSE /\ response' = Crashed("createLease", "IntegrityError")
            /\ UNCHANGED <<leases, nextLease>>
    /\ inflight' = [inflight EXCEPT ![r] = Idle]
    /\ UNCHANGED <<contacts, units, nextContact, nextUnit, quota>>

\* ------------------------------------------------------ the specifications
NoReply == Reply("none", 0, "None", {}, 0)

Init ==
    /\ contacts = <<>>
    /\ units = <<>>
    /\ leases = <<>>
    /\ nextContact = 1
    /\ nextUnit = 1
    /\ nextLease = 1
    /\ quota = MaxRecords
    /\ inflight = [r \in Slots |-> Idle]
    /\ response = NoReply

Next ==
    \/ \E data \in ContactPayloads : CreateContact(data)
    \/ \E c \in DOMAIN contacts, data \in ContactPayloads : UpdateContact(c, data)
    \/ \E c \in DOMAIN contacts : DeleteContact(c)
    \/ \E data \in UnitCreatePayloads : CreateUnit(data)
    \/ \E u \in DOMAIN units, data \in UnitUpdatePayloads : UpdateUnit(u, data)
    \/ \E u \in DOMAIN units : DeleteUnit(u)
    \/ \E data \in LeaseCreatePayloads : CreateLease(data)
    \/ \E l \in DOMAIN leases, data \in LeaseUpdatePayloads : UpdateLease(l, data)
    \/ \E l \in DOMAIN leases : DeleteLease(l)
    \/ GetDashboard

\* Requests served one at a time, each handler running to completion,
\* starting from the empty store.
Spec == Init /\ [][Next]_vars

\* load_test_data, Command.handle : John Doe (landlord), Jane Smith
\* (tenant), unit A1 created VACANT and owned by John Doe, and the Lease
\* that Lease.objects.create saves through Lease.save.
TestLandlord == [ctype |-> LANDLORD]

TestTenant == [ctype |-> TENANT]

TestUnit == [status |-> VACANT, owner |-> 1]

TestLease == [unit |-> 1, tenant |-> 2, landlord |-> 1]

TestUnitLoaded ==
    [tenantType |-> TestTenant.ctype, landlordType |-> TestLandlord.ctype,
     status |-> TestUnit.status, owner |-> TestUnit.owner,
     ownerType |-> TestLandlord.ctype]

InitSeeded ==
    /\ contacts = <<TestLandlord, TestTenant>>
    /\ units = <<IF UnitSaveRuns(TestUnitLoaded)
                 THEN UnitRowSaved(TestUnitLoaded) ELSE TestUnit>>
    /\ leases = <<TestLease>>
    /\ nextContact = 3
    /\ nextUnit = 2
    /\ nextLease = 2
    /\ quota = MaxAdded
    /\ inflight = [r \in Slots |-> Idle]
    /\ response = NoReply

\* Requests served one at a time on the store the load_test_data command
\* left.
SpecSeeded == InitSeeded /\ [][Next]_vars

\* The store before the last step of load_test_data: both Contacts and the
\* VACANT unit, no Lease yet.
InitConc ==
    /\ contacts = <<TestLandlord, TestTenant>>
    /\ units = <<TestUnit>>
    /\ leases = <<>>
    /\ nextContact = 3
    /\ nextUnit = 2
    /\ nextLease = 1
    /\ quota = MaxInflight
    /\ inflight = [r \in Slots |-> Idle]
    /\ response = NoReply

NextConc ==
    \/ \E r \in Slots, data \in LeaseCreatePayloads : BeginCreateLease(r, data)
    \/ \E r \in Slots : SaveUnitOfLease(r)
    \/ \E r \in Slots : PersistLease(r)
    \/ \E c \in DOMAIN contacts, data \in ContactPayloads : UpdateContact(c, data)
    \/ \E c \in DOMAIN contacts : DeleteContact(c)
    \/ \E u \in DOMAIN units : DeleteUnit(u)
    \/ \E l \in DOMAIN leases : DeleteLease(l)

\* createLease requests whose steps interleave with each other and with
\* the requests that delete records or change a Contact.
SpecConc == InitConc /\ [][NextConc]_vars

\* ------------------------------------------------------------- properties
LeaseWrites == {"createLease", "updateLease"}

Succeeded(reply) == reply.code \in {200, 201, 204}

\* C1. Double-booking rejection: a createLease request that names a Unit
\* whose status is OCCUPIED is answered with AlreadyOccupied (HTTP 400,
\* keyed "unit"), and the Leases and the Units are left as they were.
C1_DoubleBookingRejected ==
    [][response'.op = "createLease"
       => \A data \in LeaseCreatePayloads :
             (units[data["unit"]].status = OCCUPIED /\ CreateLease(data))
             => /\ response' = Rejected("createLease", "AlreadyOccupied", {"unit"})
                /\ leases' = leases
                /\ units' = units]_vars

\* A second createLease against the Unit an earlier Lease occupies has just
\* been rejected.
C1_Witness ==
    /\ response = Rejected("createLease", "AlreadyOccupied", {"unit"})
    /\ \E l \in DOMAIN leases : units[leases[l].unit].status = OCCUPIED

\* C3. Occupancy side effect: after every successful Lease write (create
\* or update) the Unit of the written Lease has status OCCUPIED, whatever
\* its status was before.
C3_WrittenLeaseOccupiesUnit ==
    [][(response'.op \in LeaseWrites /\ Succeeded(response'))
       => /\ response'.id \in DOMAIN leases'
          /\ units'[leases'[response'.id].unit].status = OCCUPIED]_vars

\* A Lease has just been created on a Unit that is now OCCUPIED.
C3_Witness ==
    /\ response.op = "createLease"
    /\ Succeeded(response)
    /\ units[leases[response.id].unit].status = OCCUPIED

\* C5. A Lease write that fails a check (occupancy, tenant role, landlord
\* role, ownership) leaves every stored Contact, Unit and Lease as it was.
C5_FailedLeaseWriteChangesNothing ==
    [][(response'.op \in LeaseWrites /\ ~Succeeded(response'))
       => UNCHANGED <<contacts, units, leases>>]_vars

\* A Lease update has just failed in Lease.save while the Unit of the Lease
\* is not OCCUPIED: the status side effect was due had the checks passed.
C5_Witness ==
    /\ response.op = "updateLease"
    /\ response.code = 500
    /\ \E l \in DOMAIN leases : units[leases[l].unit].status # OCCUPIED

\* C6. Unit role invariant: after any successful write of any entity every
\* stored Unit's owner is a LANDLORD, and a Unit write that names another
\* owner fails with RoleViolation and leaves the Units as they were.
C6_UnitOwnerIsLandlord ==
    [][/\ Succeeded(response')
          => \A u \in DOMAIN units' : contacts'[units'[u].owner].ctype = LANDLORD
       /\ (response'.op \in {"createUnit", "updateUnit"} /\ ~Succeeded(response'))
          => (response'.error = "RoleViolation" /\ units' = units)]_vars

\* C7. Lease role invariants: after any successful write of any entity
\* every stored Lease's tenant is a TENANT and its landlord a LANDLORD.
C7_LeaseRolesHold ==
    [][Succeeded(response')
       => \A l \in DOMAIN leases' :
             /\ contacts'[leases'[l].tenant].ctype = TENANT
             /\ contacts'[leases'[l].landlord].ctype = LANDLORD]_vars

\* The Lease a request would write passes the checks that come before the
\* ownership check, and its landlord is not the owner of its Unit.
OnlyOwnershipFails(lease) ==
    /\ contacts[lease.tenant].ctype = TENANT
    /\ contacts[lease.landlord].ctype = LANDLORD
    /\ lease.landlord # units[lease.unit].owner

\* C8. Ownership check: every createLease, and every updateLease (full or
\* partial), whose resulting landlord is not the owner of the resulting
\* Unit fails with OwnershipMismatch, answered as a recoverable error keyed
\* to the failing constraint (HTTP 400, key "landlord"), and no Lease is
\* written.
C8_OwnershipMismatchReported ==
    [][/\ response'.op = "createLease"
          => \A data \in LeaseCreatePayloads :
                (/\ units[data["unit"]].status # OCCUPIED
                 /\ OnlyOwnershipFails([f \in LeaseFields |-> data[f]])
                 /\ CreateLease(data))
                => /\ response' = Rejected("createLease", "OwnershipMismatch",
                                           {"landlord"})
                   /\ leases' = leases
       /\ response'.op = "updateLease"
          => \A l \in DOMAIN leases, data \in LeaseUpdatePayloads :
                (OnlyOwnershipFails(Merged(l, data)) /\ UpdateLease(l, data))
                => /\ response' = Rejected("updateLease", "OwnershipMismatch",
                                           {"landlord"})
                   /\ leases' = leases]_vars

\* C9. Cascading delete keeps references valid: every stored Unit's owner
\* and every stored Lease's unit, tenant and landlord are stored records.
C9_ReferencesStored ==
    /\ \A u \in DOMAIN units : units[u].owner \in DOMAIN contacts
    /\ \A l \in DOMAIN leases :
          /\ leases[l].unit \in DOMAIN units
          /\ leases[l].tenant \in DOMAIN contacts
          /\ leases[l].landlord \in DOMAIN contacts

\* A Contact has just been deleted, and every Unit and Lease that was ever
\* created is gone while another Contact is still stored.
C9_Witness ==
    /\ response.op = "deleteContact"
    /\ nextUnit > 1
    /\ nextLease > 1
    /\ DOMAIN units = {}
    /\ DOMAIN leases = {}
    /\ DOMAIN contacts # {}

\* C10. Status reversal gap: deleting a Lease changes no Unit; a Unit that
\* stays stored changes its status only by an updateUnit request or, to
\* OCCUPIED, by a Lease write: no deletion and no Lease operation sets a
\* status to VACANT or MAINTENANCE.
C10_StatusNeverReverts ==
    [][/\ response'.op = "deleteLease" => units' = units
       /\ \A u \in DOMAIN units \cap DOMAIN units' :
             units'[u].status # units[u].status
             => \/ response'.op = "updateUnit"
                \/ response'.op \in LeaseWrites /\ units'[u].status = OCCUPIED]_vars

\* The only Lease ever created has just been deleted and its Unit is still
\* stored and OCCUPIED.
C10_Witness ==
    /\ response.op = "deleteLease"
    /\ nextLease = 2
    /\ DOMAIN leases = {}
    /\ \E u \in DOMAIN units : units[u].status = OCCUPIED

\* C2. Two createLease requests that race for one VACANT Unit do not both
\* succeed: a createLease never persists a Lease on a Unit that another
\* stored Lease references.  (No request of SpecConc sets a status back to
\* VACANT, so a second Lease on a Unit can only come from the race.)
C2_NoDoubleBookingUnderRace ==
    \A l1, l2 \in DOMAIN leases : l1 # l2 => leases[l1].unit # leases[l2].unit

\* C4. Lease write atomicity: a createLease that has written the Unit row
\* (switching the Unit to OCCUPIED) ends with its Lease persisted, or else
\* with the Unit, if it is still stored, back at the status the request
\* found.
C4_LeaseWriteAtomic ==
    [][\A r \in Slots :
          (inflight[r].pc = "unitSaved" /\ inflight'[r].pc = "idle")
          => \/ /\ nextLease \in DOMAIN leases'
                /\ leases'[nextLease] = inflight[r].lease
             \/ inflight[r].lease.unit \notin DOMAIN units'
             \/ units'[inflight[r].lease.unit].status = inflight[r].loaded.status]_vars

\* What the occupancy rate is said to be: occupied / total as a percentage
\* with two decimal places and a "%", and "0%" when there is no Unit.
RateSaid(occupied, total) ==
    IF total = 0 THEN "0%"
    ELSE LET h == (occupied * 20000 + total) \div (2 * total)
         IN ToString(h \div 100) \o "." \o
            (IF h % 100 < 10 THEN "0" ELSE "") \o ToString(h % 100) \o "%"

\* C11. Dashboard occupancy rate: a dashboard request is answered, and its
\* occupancyRate is occupied / total as a percentage rounded to two decimal
\* places followed by "%" ("66.67%" for 2 OCCUPIED Units of 3), and "0%",
\* with no division by zero, when there is no Unit.
C11_OccupancyRateReported ==
    response.op = "getDashboard"
    => /\ Succeeded(response)
       /\ response.occupancy_rate = RateSaid(OccupiedUnits, TotalUnits)

\* C12. After any sequence of createLease, updateLease, deleteLease,
\* createUnit and updateUnit requests served one at a time, no Unit is
\* referenced by more than one stored Lease.
C12_OneLeasePerUnit ==
    \A u \in DOMAIN units : Cardinality(LeasesOnUnits({u})) <= 1

\* C13. In every reachable state every Unit that a stored Lease references
\* has status OCCUPIED, also after an updateUnit that sets the status of a
\* leased Unit.
C13_LeasedUnitOccupied ==
    \A l \in DOMAIN leases :
        leases[l].unit \in DOMAIN units
        => units[leases[l].unit].status = OCCUPIED

\* C14, as stated. In every reachable state every stored Lease's landlord
\* is the current owner of its Unit, also after an updateUnit that hands a
\* leased Unit to another landlord.
C14_LeaseLandlordIsOwner ==
    \A l \in DOMAIN leases :
        leases[l].unit \in DOMAIN units
        => leases[l].landlord = units[leases[l].unit].owner

\* C14, amended. With requests served one at a time, every successful Lease
\* write (create or update) leaves the written Lease's landlord equal to
\* the owner its Unit has at that moment; nothing is said of later Unit
\* writes.
C14_WrittenLeaseLandlordOwns ==
    [][(response'.op \in LeaseWrites /\ Succeeded(response'))
       => /\ response'.id \in DOMAIN leases'
          /\ leases'[response'.id].landlord
               = units'[leases'[response'.id].unit].owner]_vars

\* A stored Lease has just been rewritten and names its Unit's owner as
\* landlord.
C14_Witness ==
    /\ response.op = "updateLease"
    /\ Succeeded(response)
    /\ response.id \in DOMAIN leases
    /\ leases[response.id].unit \in DOMAIN units
    /\ leases[response.id].landlord = units[leases[response.id].unit].owner

====
